---- MODULE Spec2Model ----
(***************************************************************************)
(* Microeconomy graph tool: least-squares curve fitting, equilibrium of    *)
(* two linear curves, consumer / producer surplus (src/funct.py) and the   *)
(* Tkinter application that drives them (src/main.py).                     *)
(*                                                                         *)
(* Numbers.  The program computes with Python floats.  The model computes  *)
(* with exact rationals, so rounding error is abstracted away: a number is *)
(* a record [n, d, e] standing for n / (d * 10^e), kept in lowest terms    *)
(* (d > 0, 10 does not divide d, gcd(n, d * 10^e) = 1).  The decimal       *)
(* exponent e lets the model hold values far below the 1e-10 tolerances of *)
(* the code within TLC's integers.  d = 0 encodes the non-finite floats:   *)
(* n = 1 is +inf, n = -1 is -inf and n = 0 is nan.                         *)
(***************************************************************************)
EXTENDS Integers, Sequences, FiniteSets, TLC

VARIABLES
    fitIn,      \* arguments of the perform_calculations call under study
    fitOut,     \* its outcome, or Pending before the call
    solveIn,    \* arguments of the calculate_equilibrium call under study
    solveOut,   \* its outcome, or Pending
    surIn,      \* arguments of the calculate_surpluses call under study
    surOut,     \* its outcome, or Pending
    stagesIn,   \* curves given to Calculator.calculate_equilibrium_and_surpluses
    stagesOut,  \* its outcome, or NotRun before the call
    analisis,   \* a run of the analysis of src/analisis.py: data and outcome
    entries,    \* the four Entry widgets of the data-input tab (their text)
    results,    \* app_data["results"]
    current_figure,     \* app_data["current_figure"]
    export_button,      \* state of the "Export to CSV" button
    save_graph_button,  \* state of the "Save Graph" button
    last        \* the handler that ran last, with what it called and showed

vars == <<fitIn, fitOut, solveIn, solveOut, surIn, surOut, stagesIn, stagesOut,
          analisis, entries, results, current_figure, export_button,
          save_graph_button, last>>

(***************************************************************************)
(* Exact arithmetic standing for float arithmetic.                         *)
(***************************************************************************)
Abs(i) == IF i < 0 THEN -i ELSE i

Max(i, j) == IF i < j THEN j ELSE i

RECURSIVE GCD(_, _)
GCD(a, b) == IF b = 0 THEN a ELSE GCD(b, a % b)

RECURSIVE Pow10(_)
Pow10(k) == IF k = 0 THEN 1 ELSE 10 * Pow10(k - 1)

RECURSIVE DivPow10(_, _)
DivPow10(x, k) == IF k = 0 THEN x ELSE DivPow10(x \div 10, k - 1)

Zero == [n |-> 0, d |-> 1, e |-> 0]

PosInf == [n |-> 1, d |-> 0, e |-> 0]

NegInf == [n |-> -1, d |-> 0, e |-> 0]

NaN == [n |-> 0, d |-> 0, e |-> 0]

IsFinite(a) == a.d > 0

\* n / (d * 10^e) in lowest terms, for any integer e
RECURSIVE Norm(_, _, _)
Norm(n, d, e) ==
    IF n = 0 THEN Zero
    ELSE IF GCD(Abs(n), d) > 1
         THEN Norm(n \div GCD(Abs(n), d), d \div GCD(Abs(n), d), e)
    ELSE IF e < 0 /\ d % 10 = 0 THEN Norm(n, d \div 10, e + 1)
    ELSE IF e < 0 /\ d % 2 = 0 THEN Norm(n * 5, d \div 2, e + 1)
    ELSE IF e < 0 /\ d % 5 = 0 THEN Norm(n * 2, d \div 5, e + 1)
    ELSE IF e < 0 THEN Norm(n * 10, d, e + 1)
    ELSE IF e > 0 /\ n % 2 = 0 THEN Norm(n \div 2, d * 5, e - 1)
    ELSE IF e > 0 /\ n % 5 = 0 THEN Norm(n \div 5, d * 2, e - 1)
    ELSE IF d % 10 = 0 THEN Norm(n, d \div 10, e + 1)
    ELSE [n |-> n, d |-> d, e |-> e]

\* the float of an int
RInt(i) == [n |-> i, d |-> 1, e |-> 0]

\* the float i / (j * 10^k), for writing literals such as 1e-6
RLit(i, j, k) == Norm(i, j, k)

RSign(a) == IF a.n > 0 THEN 1 ELSE IF a.n < 0 THEN -1 ELSE 0

RNeg(a) == [a EXCEPT !.n = -a.n]

RAdd(a, b) ==
    IF a = Zero THEN b
    ELSE IF b = Zero THEN a
    ELSE IF IsFinite(a) /\ IsFinite(b)
    THEN LET E == Max(a.e, b.e)
             g == GCD(a.d, b.d)
         IN  Norm(a.n * (b.d \div g) * Pow10(E - a.e)
                    + b.n * (a.d \div g) * Pow10(E - b.e),
                  (a.d \div g) * b.d, E)
    ELSE IF a = NaN \/ b = NaN THEN NaN
    ELSE IF IsFinite(a) THEN b
    ELSE IF IsFinite(b) THEN a
    ELSE IF a = b THEN a ELSE NaN

RSub(a, b) == RAdd(a, RNeg(b))

RMul(a, b) ==
    IF IsFinite(a) /\ IsFinite(b)
    THEN LET g1 == GCD(Abs(a.n), b.d)
             g2 == GCD(Abs(b.n), a.d)
         IN  Norm((a.n \div g1) * (b.n \div g2),
                  (a.d \div g2) * (b.d \div g1), a.e + b.e)
    ELSE IF a = NaN \/ b = NaN \/ RSign(a) = 0 \/ RSign(b) = 0 THEN NaN
    ELSE IF RSign(a) * RSign(b) > 0 THEN PosInf ELSE NegInf

\* a / b.  Python raises ZeroDivisionError for b = 0; every division of the
\* code has a divisor its guards keep away from 0, so that the value given
\* here for b = 0 (nan) is never used.
RDiv(a, b) ==
    IF b = Zero THEN NaN
    ELSE IF IsFinite(a) /\ IsFinite(b)
    THEN LET g1 == GCD(Abs(a.n), Abs(b.n))
             g2 == GCD(a.d, b.d)
             num == (a.n \div g1) * (b.d \div g2) * RSign(b)
             den == (a.d \div g2) * (Abs(b.n) \div g1)
         IN  Norm(num, den, a.e - b.e)
    ELSE IF a = NaN \/ b = NaN THEN NaN
    ELSE IF IsFinite(b) THEN (IF RSign(a) * RSign(b) > 0 THEN PosInf ELSE NegInf)
    ELSE IF IsFinite(a) THEN Zero
    ELSE NaN

\* comparisons with 0 (every comparison with nan is false)
RLtZero(a) == a # NaN /\ a.n < 0

RLeZero(a) == a # NaN /\ a.n <= 0

RGtZero(a) == a # NaN /\ a.n > 0

RNeZero(a) == a # Zero

\* abs(a) < 10^-k
RAbsBelow(a, k) ==
    /\ IsFinite(a)
    /\ IF a.e >= k
       THEN Abs(a.n) < a.d * Pow10(a.e - k)
       ELSE Abs(a.n) <= DivPow10(a.d - 1, k - a.e)

\* k of the literal 1e-k in calculate_slope
DenominatorTolExp == 10

\* k of the literal 1e-k in calculate_equilibrium
ParallelTolExp == 10

RECURSIVE SumSeq(_)
SumSeq(s) == IF s = <<>> THEN Zero ELSE RAdd(SumSeq(Tail(s)), Head(s))

(***************************************************************************)
(* Float arithmetic with rounding: every operation gives the float nearest *)
(* to the exact result, ties to the even significand.  Precision is the    *)
(* number of significant bits (sys.float_info.mant_dig, 53 in CPython);    *)
(* the exponent is left unbounded.                                         *)
(***************************************************************************)
Precision == 4

RECURSIVE Pow2(_)
Pow2(k) == IF k = 0 THEN 1 ELSE 2 * Pow2(k - 1)

\* the integer nearest to N / D, the even one of two equally near
RoundHalfEven(N, D) ==
    IF 2 * (N % D) > D \/ (2 * (N % D) = D /\ (N \div D) % 2 = 1)
    THEN (N \div D) + 1 ELSE N \div D

\* the float nearest to N / D, for N > 0 and D > 0
RECURSIVE RoundMagnitude(_, _)
RoundMagnitude(N, D) ==
    IF N >= D * Pow2(Precision)
    THEN RMul(RInt(2), RoundMagnitude(N, 2 * D))
    ELSE IF N < D * Pow2(Precision - 1)
    THEN RDiv(RoundMagnitude(2 * N, D), RInt(2))
    ELSE RInt(RoundHalfEven(N, D))

\* the float nearest to a
Fl(a) ==
    IF ~IsFinite(a) \/ a = Zero THEN a
    ELSE IF a.n < 0 THEN RNeg(RoundMagnitude(-a.n, a.d * Pow10(a.e)))
    ELSE RoundMagnitude(a.n, a.d * Pow10(a.e))

FAdd(a, b) == Fl(RAdd(a, b))

FSub(a, b) == Fl(RSub(a, b))

FMul(a, b) == Fl(RMul(a, b))

FDiv(a, b) == Fl(RDiv(a, b))

(***************************************************************************)
(* Outcomes of a call: what it returned or raised, and divs, the divisors  *)
(* of the divisions it evaluated, in order.                                *)
(***************************************************************************)
NoValue == <<>>

Pending == [st |-> "pending", val |-> NoValue, exc |-> "", msg |-> "", divs |-> <<>>]

Returned(v, divs) ==
    [st |-> "returned", val |-> v, exc |-> "", msg |-> "", divs |-> divs]

Raised(exc, msg, divs) ==
    [st |-> "raised", val |-> NoValue, exc |-> exc, msg |-> msg, divs |-> divs]

(***************************************************************************)
(* src/funct.py: linear regression.                                        *)
(***************************************************************************)
\* calculate_sums requiring one data point instead of two
calculate_sums_min_one(independent_variable, dependent_variable, data_points_count) ==
    IF \/ Len(independent_variable) # Len(dependent_variable)
       \/ Len(independent_variable) # data_points_count
    THEN Raised("ValueError", "All arrays must have the same length", <<>>)
    ELSE IF data_points_count < 1
    THEN Raised("ValueError",
                "At least 2 data points are required for regression", <<>>)
    ELSE Returned(
        [sum_independent |-> SumSeq(independent_variable),
         sum_dependent |-> SumSeq(dependent_variable),
         sum_independent_squared |->
            SumSeq([i \in 1..data_points_count |->
                      RMul(independent_variable[i], independent_variable[i])]),
         sum_independent_dependent_product |->
            SumSeq([i \in 1..data_points_count |->
                      RMul(independent_variable[i], dependent_variable[i])]),
         sum_dependent_squared |->
            SumSeq([i \in 1..data_points_count |->
                      RMul(dependent_variable[i], dependent_variable[i])])],
        <<>>)

calculate_sums(independent_variable, dependent_variable, data_points_count) ==
    IF \/ Len(independent_variable) # Len(dependent_variable)
       \/ Len(independent_variable) # data_points_count
    THEN Raised("ValueError", "All arrays must have the same length", <<>>)
    ELSE IF data_points_count < 2
    THEN Raised("ValueError",
                "At least 2 data points are required for regression", <<>>)
    ELSE Returned(
        [sum_independent |-> SumSeq(independent_variable),
         sum_dependent |-> SumSeq(dependent_variable),
         sum_independent_squared |->
            SumSeq([i \in 1..data_points_count |->
                      RMul(independent_variable[i], independent_variable[i])]),
         sum_independent_dependent_product |->
            SumSeq([i \in 1..data_points_count |->
                      RMul(independent_variable[i], dependent_variable[i])]),
         sum_dependent_squared |->
            SumSeq([i \in 1..data_points_count |->
                      RMul(dependent_variable[i], dependent_variable[i])])],
        <<>>)

\* calculate_slope testing the denominator for exact zero instead of the tolerance
calculate_slope_exact_zero(sum_independent, sum_dependent, sum_independent_squared, sum_independent_dependent_product, data_points_count) ==
    LET denominator ==
            RSub(sum_independent_squared,
                 RDiv(RMul(sum_independent, sum_independent),
                      RInt(data_points_count)))
    IN  IF denominator = Zero
        THEN Raised("ValueError",
                    "Cannot calculate slope: denominator is too close to zero",
                    <<RInt(data_points_count)>>)
        ELSE Returned(
                RDiv(RSub(sum_independent_dependent_product,
                          RDiv(RMul(sum_independent, sum_dependent),
                               RInt(data_points_count))),
                     denominator),
                <<RInt(data_points_count), RInt(data_points_count), denominator>>)

\* calculate_slope without the division by n in the numerator
calculate_slope_unscaled_product(sum_independent, sum_dependent, sum_independent_squared, sum_independent_dependent_product, data_points_count) ==
    LET denominator ==
            RSub(sum_independent_squared,
                 RDiv(RMul(sum_independent, sum_independent),
                      RInt(data_points_count)))
    IN  IF RAbsBelow(denominator, DenominatorTolExp)
        THEN Raised("ValueError",
                    "Cannot calculate slope: denominator is too close to zero",
                    <<RInt(data_points_count)>>)
        ELSE Returned(
                RDiv(RSub(sum_independent_dependent_product,
                          RMul(sum_independent, sum_dependent)),
                     denominator),
                <<RInt(data_points_count), denominator>>)

calculate_slope(sum_independent, sum_dependent, sum_independent_squared, sum_independent_dependent_product, data_points_count) ==
    LET denominator ==
            RSub(sum_independent_squared,
                 RDiv(RMul(sum_independent, sum_independent),
                      RInt(data_points_count)))
    IN  IF RAbsBelow(denominator, DenominatorTolExp)
        THEN Raised("ValueError",
                    "Cannot calculate slope: denominator is too close to zero",
                    <<RInt(data_points_count)>>)
        ELSE Returned(
                RDiv(RSub(sum_independent_dependent_product,
                          RDiv(RMul(sum_independent, sum_dependent),
                               RInt(data_points_count))),
                     denominator),
                <<RInt(data_points_count), RInt(data_points_count), denominator>>)

\* calculate_intercept dividing the sum of the dependent values alone by n
calculate_intercept_late_division(sum_independent, sum_dependent, slope, data_points_count) ==
    Returned(RSub(RMul(RDiv(RInt(1), RInt(data_points_count)), sum_dependent),
                  RMul(slope, sum_independent)),
             <<RInt(data_points_count)>>)

\* calculate_intercept adding slope * sum_independent instead of subtracting it
calculate_intercept_added_product(sum_independent, sum_dependent, slope, data_points_count) ==
    Returned(RMul(RDiv(RInt(1), RInt(data_points_count)),
                  RAdd(sum_dependent, RMul(slope, sum_independent))),
             <<RInt(data_points_count)>>)

calculate_intercept(sum_independent, sum_dependent, slope, data_points_count) ==
    Returned(RMul(RDiv(RInt(1), RInt(data_points_count)),
                  RSub(sum_dependent, RMul(slope, sum_independent))),
             <<RInt(data_points_count)>>)

perform_calculations(quantity_values, price_values, data_points_count) ==
    IF quantity_values = <<>> \/ price_values = <<>>
    THEN Raised("ValueError", "Input arrays cannot be empty", <<>>)
    ELSE
    LET sums == calculate_sums(quantity_values, price_values, data_points_count)
    IN  IF sums.st = "raised" THEN sums ELSE
    LET slope == calculate_slope(sums.val.sum_independent,
                                 sums.val.sum_dependent,
                                 sums.val.sum_independent_squared,
                                 sums.val.sum_independent_dependent_product,
                                 data_points_count)
    IN  IF slope.st = "raised" THEN slope ELSE
    LET intercept == calculate_intercept(sums.val.sum_independent,
                                         sums.val.sum_dependent,
                                         slope.val, data_points_count)
    IN  Returned(<<intercept.val, slope.val>>, slope.divs \o intercept.divs)

(***************************************************************************)
(* src/funct.py: equilibrium and surpluses.                                *)
(***************************************************************************)
\* calculate_equilibrium with the operands of the price's numerator swapped
calculate_equilibrium_swapped_numerator(demand_intercept, demand_slope, supply_intercept, supply_slope) ==
    IF RAbsBelow(RSub(demand_slope, supply_slope), ParallelTolExp)
    THEN Raised("ValueError",
                "Demand and supply curves are parallel - no equilibrium exists",
                <<>>)
    ELSE
    LET equilibrium_price ==
            RDiv(RSub(demand_intercept, supply_intercept),
                 RSub(demand_slope, supply_slope))
        equilibrium_quantity ==
            RAdd(demand_intercept, RMul(demand_slope, equilibrium_price))
    IN  IF RLtZero(equilibrium_price) \/ RLtZero(equilibrium_quantity)
        THEN Raised("ValueError", "Equilibrium point has negative values",
                    <<RSub(demand_slope, supply_slope)>>)
        ELSE Returned(<<equilibrium_price, equilibrium_quantity>>,
                      <<RSub(demand_slope, supply_slope)>>)

\* calculate_equilibrium rejecting a negative price only
calculate_equilibrium_price_check_only(demand_intercept, demand_slope, supply_intercept, supply_slope) ==
    IF RAbsBelow(RSub(demand_slope, supply_slope), ParallelTolExp)
    THEN Raised("ValueError",
                "Demand and supply curves are parallel - no equilibrium exists",
                <<>>)
    ELSE
    LET equilibrium_price ==
            RDiv(RSub(supply_intercept, demand_intercept),
                 RSub(demand_slope, supply_slope))
        equilibrium_quantity ==
            RAdd(demand_intercept, RMul(demand_slope, equilibrium_price))
    IN  IF RLtZero(equilibrium_price)
        THEN Raised("ValueError", "Equilibrium point has negative values",
                    <<RSub(demand_slope, supply_slope)>>)
        ELSE Returned(<<equilibrium_price, equilibrium_quantity>>,
                      <<RSub(demand_slope, supply_slope)>>)

\* calculate_equilibrium testing the slopes for equality instead of the tolerance
calculate_equilibrium_exact_parallel(demand_intercept, demand_slope, supply_intercept, supply_slope) ==
    IF demand_slope = supply_slope
    THEN Raised("ValueError",
                "Demand and supply curves are parallel - no equilibrium exists",
                <<>>)
    ELSE
    LET equilibrium_price ==
            RDiv(RSub(supply_intercept, demand_intercept),
                 RSub(demand_slope, supply_slope))
        equilibrium_quantity ==
            RAdd(demand_intercept, RMul(demand_slope, equilibrium_price))
    IN  IF RLtZero(equilibrium_price) \/ RLtZero(equilibrium_quantity)
        THEN Raised("ValueError", "Equilibrium point has negative values",
                    <<RSub(demand_slope, supply_slope)>>)
        ELSE Returned(<<equilibrium_price, equilibrium_quantity>>,
                      <<RSub(demand_slope, supply_slope)>>)

calculate_equilibrium(demand_intercept, demand_slope, supply_intercept, supply_slope) ==
    IF RAbsBelow(RSub(demand_slope, supply_slope), ParallelTolExp)
    THEN Raised("ValueError",
                "Demand and supply curves are parallel - no equilibrium exists",
                <<>>)
    ELSE
    LET equilibrium_price ==
            RDiv(RSub(supply_intercept, demand_intercept),
                 RSub(demand_slope, supply_slope))
        equilibrium_quantity ==
            RAdd(demand_intercept, RMul(demand_slope, equilibrium_price))
    IN  IF RLtZero(equilibrium_price) \/ RLtZero(equilibrium_quantity)
        THEN Raised("ValueError", "Equilibrium point has negative values",
                    <<RSub(demand_slope, supply_slope)>>)
        ELSE Returned(<<equilibrium_price, equilibrium_quantity>>,
                      <<RSub(demand_slope, supply_slope)>>)

\* calculate_surpluses taking the trapezoid branch for a quantity intercept of 0 too
calculate_surpluses_trapezoid_at_zero(equilibrium_quantity, equilibrium_price, demand_price_intercept, supply_quantity_intercept, supply_price_intercept) ==
    IF RLeZero(equilibrium_quantity) \/ RLeZero(equilibrium_price)
    THEN Raised("ValueError", "Equilibrium values must be positive", <<>>)
    ELSE
    LET consumer_surplus ==
            RDiv(RMul(equilibrium_quantity,
                      RSub(demand_price_intercept, equilibrium_price)),
                 RInt(2))
        producer_surplus ==
            IF ~RLtZero(supply_quantity_intercept)
            THEN RDiv(RMul(RAdd(equilibrium_quantity, supply_quantity_intercept),
                           equilibrium_price),
                      RInt(2))
            ELSE RDiv(RMul(equilibrium_quantity,
                           RSub(equilibrium_price, supply_price_intercept)),
                      RInt(2))
    IN  Returned(<<consumer_surplus, producer_surplus>>, <<RInt(2), RInt(2)>>)

\* calculate_surpluses measuring the consumer's triangle from the supply
\* curve's price intercept
calculate_surpluses_consumer_from_supply(equilibrium_quantity, equilibrium_price, demand_price_intercept, supply_quantity_intercept, supply_price_intercept) ==
    IF RLeZero(equilibrium_quantity) \/ RLeZero(equilibrium_price)
    THEN Raised("ValueError", "Equilibrium values must be positive", <<>>)
    ELSE
    LET consumer_surplus ==
            RDiv(RMul(equilibrium_quantity,
                      RSub(supply_price_intercept, equilibrium_price)),
                 RInt(2))
        producer_surplus ==
            IF RGtZero(supply_quantity_intercept)
            THEN RDiv(RMul(RAdd(equilibrium_quantity, supply_quantity_intercept),
                           equilibrium_price),
                      RInt(2))
            ELSE RDiv(RMul(equilibrium_quantity,
                           RSub(equilibrium_price, supply_price_intercept)),
                      RInt(2))
    IN  Returned(<<consumer_surplus, producer_surplus>>, <<RInt(2), RInt(2)>>)

\* calculate_surpluses rejecting negative equilibrium values only
calculate_surpluses_accepts_zero(equilibrium_quantity, equilibrium_price, demand_price_intercept, supply_quantity_intercept, supply_price_intercept) ==
    IF RLtZero(equilibrium_quantity) \/ RLtZero(equilibrium_price)
    THEN Raised("ValueError", "Equilibrium values must be positive", <<>>)
    ELSE
    LET consumer_surplus ==
            RDiv(RMul(equilibrium_quantity,
                      RSub(demand_price_intercept, equilibrium_price)),
                 RInt(2))
        producer_surplus ==
            IF RGtZero(supply_quantity_intercept)
            THEN RDiv(RMul(RAdd(equilibrium_quantity, supply_quantity_intercept),
                           equilibrium_price),
                      RInt(2))
            ELSE RDiv(RMul(equilibrium_quantity,
                           RSub(equilibrium_price, supply_price_intercept)),
                      RInt(2))
    IN  Returned(<<consumer_surplus, producer_surplus>>, <<RInt(2), RInt(2)>>)

\* calculate_surpluses testing the equilibrium price alone
calculate_surpluses_checks_price_only(equilibrium_quantity, equilibrium_price, demand_price_intercept, supply_quantity_intercept, supply_price_intercept) ==
    IF RLeZero(equilibrium_price)
    THEN Raised("ValueError", "Equilibrium values must be positive", <<>>)
    ELSE
    LET consumer_surplus ==
            RDiv(RMul(equilibrium_quantity,
                      RSub(demand_price_intercept, equilibrium_price)),
                 RInt(2))
        producer_surplus ==
            IF RGtZero(supply_quantity_intercept)
            THEN RDiv(RMul(RAdd(equilibrium_quantity, supply_quantity_intercept),
                           equilibrium_price),
                      RInt(2))
            ELSE RDiv(RMul(equilibrium_quantity,
                           RSub(equilibrium_price, supply_price_intercept)),
                      RInt(2))
    IN  Returned(<<consumer_surplus, producer_surplus>>, <<RInt(2), RInt(2)>>)

calculate_surpluses(equilibrium_quantity, equilibrium_price, demand_price_intercept, supply_quantity_intercept, supply_price_intercept) ==
    IF RLeZero(equilibrium_quantity) \/ RLeZero(equilibrium_price)
    THEN Raised("ValueError", "Equilibrium values must be positive", <<>>)
    ELSE
    LET consumer_surplus ==
            RDiv(RMul(equilibrium_quantity,
                      RSub(demand_price_intercept, equilibrium_price)),
                 RInt(2))
        producer_surplus ==
            IF RGtZero(supply_quantity_intercept)
            THEN RDiv(RMul(RAdd(equilibrium_quantity, supply_quantity_intercept),
                           equilibrium_price),
                      RInt(2))
            ELSE RDiv(RMul(equilibrium_quantity,
                           RSub(equilibrium_price, supply_price_intercept)),
                      RInt(2))
    IN  Returned(<<consumer_surplus, producer_surplus>>, <<RInt(2), RInt(2)>>)

\* _calculate_plot_data giving the demand curve's quantity intercept to
\* calculate_surpluses as the supply quantity intercept
calculate_plot_data_demand_intercept(demand_intercept, demand_slope, supply_intercept, supply_slope) ==
    LET equilibrium == calculate_equilibrium(demand_intercept, demand_slope,
                                             supply_intercept, supply_slope)
    IN  IF equilibrium.st = "raised" THEN equilibrium ELSE
    LET equilibrium_price == equilibrium.val[1]
        equilibrium_quantity == equilibrium.val[2]
        demand_price_intercept ==
            IF RNeZero(demand_slope)
            THEN RDiv(RNeg(demand_intercept), demand_slope) ELSE PosInf
        demand_quantity_intercept == demand_intercept
        supply_price_intercept ==
            IF RNeZero(supply_slope)
            THEN RDiv(RNeg(supply_intercept), supply_slope) ELSE PosInf
        supply_quantity_intercept == supply_intercept
        intercept_divs ==
            (IF RNeZero(demand_slope) THEN <<demand_slope>> ELSE <<>>)
            \o (IF RNeZero(supply_slope) THEN <<supply_slope>> ELSE <<>>)
        surpluses == calculate_surpluses(equilibrium_quantity, equilibrium_price,
                                         demand_price_intercept,
                                         demand_quantity_intercept,
                                         supply_price_intercept)
    IN  IF surpluses.st = "raised"
        THEN Raised(surpluses.exc, surpluses.msg,
                    equilibrium.divs \o intercept_divs)
        ELSE Returned(
                [equilibrium_price |-> equilibrium_price,
                 equilibrium_quantity |-> equilibrium_quantity,
                 demand_price_intercept |-> demand_price_intercept,
                 demand_quantity_intercept |-> demand_quantity_intercept,
                 supply_price_intercept |-> supply_price_intercept,
                 supply_quantity_intercept |-> supply_quantity_intercept,
                 consumer_surplus |-> surpluses.val[1],
                 producer_surplus |-> surpluses.val[2],
                 demand_intercept |-> demand_intercept,
                 demand_slope |-> demand_slope,
                 supply_intercept |-> supply_intercept,
                 supply_slope |-> supply_slope],
                equilibrium.divs \o intercept_divs \o surpluses.divs)

\* _calculate_plot_data (the leading underscore of the name is dropped)
calculate_plot_data(demand_intercept, demand_slope, supply_intercept, supply_slope) ==
    LET equilibrium == calculate_equilibrium(demand_intercept, demand_slope,
                                             supply_intercept, supply_slope)
    IN  IF equilibrium.st = "raised" THEN equilibrium ELSE
    LET equilibrium_price == equilibrium.val[1]
        equilibrium_quantity == equilibrium.val[2]
        demand_price_intercept ==
            IF RNeZero(demand_slope)
            THEN RDiv(RNeg(demand_intercept), demand_slope) ELSE PosInf
        demand_quantity_intercept == demand_intercept
        supply_price_intercept ==
            IF RNeZero(supply_slope)
            THEN RDiv(RNeg(supply_intercept), supply_slope) ELSE PosInf
        supply_quantity_intercept == supply_intercept
        intercept_divs ==
            (IF RNeZero(demand_slope) THEN <<demand_slope>> ELSE <<>>)
            \o (IF RNeZero(supply_slope) THEN <<supply_slope>> ELSE <<>>)
        surpluses == calculate_surpluses(equilibrium_quantity, equilibrium_price,
                                         demand_price_intercept,
                                         supply_quantity_intercept,
                                         supply_price_intercept)
    IN  IF surpluses.st = "raised"
        THEN Raised(surpluses.exc, surpluses.msg,
                    equilibrium.divs \o intercept_divs)
        ELSE Returned(
                [equilibrium_price |-> equilibrium_price,
                 equilibrium_quantity |-> equilibrium_quantity,
                 demand_price_intercept |-> demand_price_intercept,
                 demand_quantity_intercept |-> demand_quantity_intercept,
                 supply_price_intercept |-> supply_price_intercept,
                 supply_quantity_intercept |-> supply_quantity_intercept,
                 consumer_surplus |-> surpluses.val[1],
                 producer_surplus |-> surpluses.val[2],
                 demand_intercept |-> demand_intercept,
                 demand_slope |-> demand_slope,
                 supply_intercept |-> supply_intercept,
                 supply_slope |-> supply_slope],
                equilibrium.divs \o intercept_divs \o surpluses.divs)

(***************************************************************************)
(* src/main.py: Calculator.                                                *)
(* calls is the sequence of stage functions a call entered, in order.      *)
(***************************************************************************)
\* cause is the error a "raise ... from error" chains (__cause__)
NoCause == [exc |-> "", msg |-> ""]

Staged(out, calls, cause) ==
    [st |-> out.st, val |-> out.val, exc |-> out.exc, msg |-> out.msg,
     divs |-> out.divs, calls |-> calls, cause |-> cause]

CauseOf(out) == [exc |-> out.exc, msg |-> out.msg]

\* calculate_curves fitting the supply curve before the demand curve
calculate_curves_supply_first(demand_prices, demand_quantities, supply_prices, supply_quantities) ==
    LET demand == perform_calculations(demand_quantities, demand_prices,
                                       Len(demand_prices))
        supply == perform_calculations(supply_quantities, supply_prices,
                                       Len(supply_prices))
    IN  IF supply.st = "raised"
        THEN Staged(Raised("ValueError",
                           "Error calculating curves: " \o supply.msg,
                           supply.divs),
                    <<"perform_calculations(supply)">>, CauseOf(supply))
        ELSE IF demand.st = "raised"
        THEN Staged(Raised("ValueError",
                           "Error calculating curves: " \o demand.msg,
                           supply.divs \o demand.divs),
                    <<"perform_calculations(supply)",
                      "perform_calculations(demand)">>, CauseOf(demand))
        ELSE Staged(Returned(<<demand.val[1], demand.val[2],
                               supply.val[1], supply.val[2]>>,
                             supply.divs \o demand.divs),
                    <<"perform_calculations(supply)",
                      "perform_calculations(demand)">>, NoCause)

calculate_curves(demand_prices, demand_quantities, supply_prices, supply_quantities) ==
    LET demand == perform_calculations(demand_quantities, demand_prices,
                                       Len(demand_prices))
        supply == perform_calculations(supply_quantities, supply_prices,
                                       Len(supply_prices))
    IN  IF demand.st = "raised"
        THEN Staged(Raised("ValueError",
                           "Error calculating curves: " \o demand.msg,
                           demand.divs),
                    <<"perform_calculations(demand)">>, CauseOf(demand))
        ELSE IF supply.st = "raised"
        THEN Staged(Raised("ValueError",
                           "Error calculating curves: " \o supply.msg,
                           demand.divs \o supply.divs),
                    <<"perform_calculations(demand)",
                      "perform_calculations(supply)">>, CauseOf(supply))
        ELSE Staged(Returned(<<demand.val[1], demand.val[2],
                               supply.val[1], supply.val[2]>>,
                             demand.divs \o supply.divs),
                    <<"perform_calculations(demand)",
                      "perform_calculations(supply)">>, NoCause)

\* the price intercept without the sign of the intercept
price_intercept_unsigned(intercept, slope) ==
    IF RNeZero(slope) THEN RDiv(intercept, slope) ELSE PosInf

\* -intercept / slope if slope != 0 else float("inf")
price_intercept(intercept, slope) ==
    IF RNeZero(slope) THEN RDiv(RNeg(intercept), slope) ELSE PosInf

\* calculate_equilibrium_and_surpluses returning the equilibrium alone when
\* the surpluses cannot be calculated
calculate_equilibrium_and_surpluses_partial(demand_intercept, demand_slope, supply_intercept, supply_slope) ==
    LET equilibrium == calculate_equilibrium(demand_intercept, demand_slope,
                                             supply_intercept, supply_slope)
    IN  IF equilibrium.st = "raised"
        THEN Staged(Raised("ValueError",
                           "Error calculating equilibrium: " \o equilibrium.msg,
                           equilibrium.divs),
                    <<"calculate_equilibrium">>, CauseOf(equilibrium))
        ELSE
    LET equilibrium_price == equilibrium.val[1]
        equilibrium_quantity == equilibrium.val[2]
        demand_price_intercept == price_intercept(demand_intercept, demand_slope)
        supply_price_intercept == price_intercept(supply_intercept, supply_slope)
        intercept_divs ==
            (IF RNeZero(demand_slope) THEN <<demand_slope>> ELSE <<>>)
            \o (IF RNeZero(supply_slope) THEN <<supply_slope>> ELSE <<>>)
        surpluses == calculate_surpluses(equilibrium_quantity, equilibrium_price,
                                         demand_price_intercept, supply_intercept,
                                         supply_price_intercept)
    IN  IF surpluses.st = "raised"
        THEN Staged(Returned(
                        [equilibrium_price |-> equilibrium_price,
                         equilibrium_quantity |-> equilibrium_quantity],
                        equilibrium.divs \o intercept_divs),
                    <<"calculate_equilibrium", "calculate_surpluses">>, NoCause)
        ELSE Staged(Returned(
                        [equilibrium_price |-> equilibrium_price,
                         equilibrium_quantity |-> equilibrium_quantity,
                         consumer_surplus |-> surpluses.val[1],
                         producer_surplus |-> surpluses.val[2],
                         total_surplus |->
                            RAdd(surpluses.val[1], surpluses.val[2])],
                        equilibrium.divs \o intercept_divs \o surpluses.divs),
                    <<"calculate_equilibrium", "calculate_surpluses">>, NoCause)

calculate_equilibrium_and_surpluses(demand_intercept, demand_slope, supply_intercept, supply_slope) ==
    LET equilibrium == calculate_equilibrium(demand_intercept, demand_slope,
                                             supply_intercept, supply_slope)
    IN  IF equilibrium.st = "raised"
        THEN Staged(Raised("ValueError",
                           "Error calculating equilibrium: " \o equilibrium.msg,
                           equilibrium.divs),
                    <<"calculate_equilibrium">>, CauseOf(equilibrium))
        ELSE
    LET equilibrium_price == equilibrium.val[1]
        equilibrium_quantity == equilibrium.val[2]
        demand_price_intercept == price_intercept(demand_intercept, demand_slope)
        supply_price_intercept == price_intercept(supply_intercept, supply_slope)
        intercept_divs ==
            (IF RNeZero(demand_slope) THEN <<demand_slope>> ELSE <<>>)
            \o (IF RNeZero(supply_slope) THEN <<supply_slope>> ELSE <<>>)
        surpluses == calculate_surpluses(equilibrium_quantity, equilibrium_price,
                                         demand_price_intercept, supply_intercept,
                                         supply_price_intercept)
    IN  IF surpluses.st = "raised"
        THEN Staged(Raised("ValueError",
                           "Error calculating equilibrium: " \o surpluses.msg,
                           equilibrium.divs \o intercept_divs),
                    <<"calculate_equilibrium", "calculate_surpluses">>,
                    CauseOf(surpluses))
        ELSE Staged(Returned(
                        [equilibrium_price |-> equilibrium_price,
                         equilibrium_quantity |-> equilibrium_quantity,
                         consumer_surplus |-> surpluses.val[1],
                         producer_surplus |-> surpluses.val[2],
                         total_surplus |->
                            RAdd(surpluses.val[1], surpluses.val[2])],
                        equilibrium.divs \o intercept_divs \o surpluses.divs),
                    <<"calculate_equilibrium", "calculate_surpluses">>, NoCause)

(***************************************************************************)
(* The same functions of src/funct.py and of Calculator with every float   *)
(* operation rounded.  -x and comparisons are exact in float arithmetic.   *)
(***************************************************************************)
calculate_equilibrium_rounded(demand_intercept, demand_slope, supply_intercept, supply_slope) ==
    IF RAbsBelow(FSub(demand_slope, supply_slope), ParallelTolExp)
    THEN Raised("ValueError",
                "Demand and supply curves are parallel - no equilibrium exists",
                <<>>)
    ELSE
    LET equilibrium_price ==
            FDiv(FSub(supply_intercept, demand_intercept),
                 FSub(demand_slope, supply_slope))
        equilibrium_quantity ==
            FAdd(demand_intercept, FMul(demand_slope, equilibrium_price))
    IN  IF RLtZero(equilibrium_price) \/ RLtZero(equilibrium_quantity)
        THEN Raised("ValueError", "Equilibrium point has negative values",
                    <<FSub(demand_slope, supply_slope)>>)
        ELSE Returned(<<equilibrium_price, equilibrium_quantity>>,
                      <<FSub(demand_slope, supply_slope)>>)

calculate_surpluses_rounded(equilibrium_quantity, equilibrium_price, demand_price_intercept, supply_quantity_intercept, supply_price_intercept) ==
    IF RLeZero(equilibrium_quantity) \/ RLeZero(equilibrium_price)
    THEN Raised("ValueError", "Equilibrium values must be positive", <<>>)
    ELSE
    LET consumer_surplus ==
            FDiv(FMul(equilibrium_quantity,
                      FSub(demand_price_intercept, equilibrium_price)),
                 RInt(2))
        producer_surplus ==
            IF RGtZero(supply_quantity_intercept)
            THEN FDiv(FMul(FAdd(equilibrium_quantity, supply_quantity_intercept),
                           equilibrium_price),
                      RInt(2))
            ELSE FDiv(FMul(equilibrium_quantity,
                           FSub(equilibrium_price, supply_price_intercept)),
                      RInt(2))
    IN  Returned(<<consumer_surplus, producer_surplus>>, <<RInt(2), RInt(2)>>)

price_intercept_rounded(intercept, slope) ==
    IF RNeZero(slope) THEN FDiv(RNeg(intercept), slope) ELSE PosInf

calculate_equilibrium_and_surpluses_rounded(demand_intercept, demand_slope, supply_intercept, supply_slope) ==
    LET equilibrium == calculate_equilibrium_rounded(demand_intercept, demand_slope,
                                             supply_intercept, supply_slope)
    IN  IF equilibrium.st = "raised"
        THEN Staged(Raised("ValueError",
                           "Error calculating equilibrium: " \o equilibrium.msg,
                           equilibrium.divs),
                    <<"calculate_equilibrium">>, CauseOf(equilibrium))
        ELSE
    LET equilibrium_price == equilibrium.val[1]
        equilibrium_quantity == equilibrium.val[2]
        demand_price_intercept == price_intercept_rounded(demand_intercept, demand_slope)
        supply_price_intercept == price_intercept_rounded(supply_intercept, supply_slope)
        intercept_divs ==
            (IF RNeZero(demand_slope) THEN <<demand_slope>> ELSE <<>>)
            \o (IF RNeZero(supply_slope) THEN <<supply_slope>> ELSE <<>>)
        surpluses == calculate_surpluses_rounded(equilibrium_quantity, equilibrium_price,
                                         demand_price_intercept, supply_intercept,
                                         supply_price_intercept)
    IN  IF surpluses.st = "raised"
        THEN Staged(Raised("ValueError",
                           "Error calculating equilibrium: " \o surpluses.msg,
                           equilibrium.divs \o intercept_divs),
                    <<"calculate_equilibrium", "calculate_surpluses">>,
                    CauseOf(surpluses))
        ELSE Staged(Returned(
                        [equilibrium_price |-> equilibrium_price,
                         equilibrium_quantity |-> equilibrium_quantity,
                         consumer_surplus |-> surpluses.val[1],
                         producer_surplus |-> surpluses.val[2],
                         total_surplus |->
                            FAdd(surpluses.val[1], surpluses.val[2])],
                        equilibrium.divs \o intercept_divs \o surpluses.divs),
                    <<"calculate_equilibrium", "calculate_surpluses">>, NoCause)

(***************************************************************************)
(* src/main.py: DataManager.  The text of an Entry is modelled by its      *)
(* comma-separated pieces, data_string.split(","): the empty text is the   *)
(* single empty piece.                                                     *)
(***************************************************************************)
\* float(piece.strip()) for the pieces that are numerals
NumeralValue ==
    ("0" :> RInt(0)) @@ ("1" :> RInt(1)) @@ ("2" :> RInt(2)) @@ (" 2" :> RInt(2))

\* piece.strip() is empty
IsBlank(piece) == piece \in {"", " "}

parse_data_string(data_string) ==
    IF \E i \in 1..Len(data_string) :
          ~IsBlank(data_string[i]) /\ data_string[i] \notin DOMAIN NumeralValue
    THEN <<>>
    ELSE LET kept == SelectSeq(data_string, LAMBDA piece : ~IsBlank(piece))
         IN  [i \in 1..Len(kept) |-> NumeralValue[kept[i]]]

validate_data(demand_prices, demand_quantities, supply_prices, supply_quantities) ==
    IF Len(demand_prices) # Len(demand_quantities)
    THEN <<FALSE, "Demand price and quantity arrays must have the same length">>
    ELSE IF Len(supply_prices) # Len(supply_quantities)
    THEN <<FALSE, "Supply price and quantity arrays must have the same length">>
    ELSE IF Len(demand_prices) < 2
    THEN <<FALSE, "At least 2 demand data points are required">>
    ELSE IF Len(supply_prices) < 2
    THEN <<FALSE, "At least 2 supply data points are required">>
    ELSE <<TRUE, "Data is valid">>

(***************************************************************************)
(* src/main.py: MicroeconomyApp.                                           *)
(***************************************************************************)
Fields == {"demand_prices", "demand_quantities",
           "supply_prices", "supply_quantities"}

EmptyText == <<"">>

EmptyDict == <<>>

None == <<>>

\* no messagebox
NoBox == [kind |-> "", title |-> "", text |-> ""]

Box(kind, title, text) == [kind |-> kind, title |-> title, text |-> text]

NoCaught == [exc |-> "", msg |-> "", cause |-> NoCause]

\* what a handler did: the stages it entered, the curves calculate_curves
\* returned (handed on to calculate_equilibrium_and_surpluses), the error its
\* except clause caught and the messagebox it showed
Handled(op, calls, curves, caught, box) ==
    [op |-> op, calls |-> calls, curves |-> curves, caught |-> caught,
     box |-> box]

Idle == Handled("", <<>>, None, NoCaught, NoBox)

\* create_supply_demand_graph: the figure drawn from a results record
create_supply_demand_graph(res) == [drawn |-> res]

\* a stage that was not entered
NotRun == Staged(Pending, <<>>, NoCause)

\* the error the except clause of calculate_results catches
Caught(out) == [exc |-> out.exc, msg |-> out.msg, cause |-> out.cause]

(***************************************************************************)
(* Bounds and input sets.                                                  *)
(***************************************************************************)
\* longest sample series given to perform_calculations
MaxLen == 3

\* largest curve coefficient given to calculate_equilibrium and
\* calculate_surpluses
MaxCoef == 2

SeqsUpTo(S, k) == UNION {[1..m -> S] : m \in 0..k}

\* independent-variable samples: ordinary values, and values so small that the
\* regression denominator falls on either side of the 1e-10 tolerance
XVals == {RInt(0), RInt(1), RInt(2)}

TinyXVals == {Zero, RLit(1, 1, 5), RLit(2, 1, 5)}

YVals == {RInt(-1), RInt(0), RInt(2)}

FitInputs ==
    [x : SeqsUpTo(XVals, MaxLen) \cup SeqsUpTo(TinyXVals, MaxLen),
     y : SeqsUpTo(YVals, MaxLen),
     n : 0..MaxLen]

\* curve coefficients: ordinary values, and values near the 1e-10 tolerance
Coefs == {RInt(i) : i \in -MaxCoef..MaxCoef} \cup {RLit(1, 2, 0)}

TinyCoefs == {Zero, RLit(1, 1, 11), RLit(-1, 1, 11), RLit(1, 1, 10),
              RLit(2, 1, 10)}

SolveInputs ==
    [demand_intercept : Coefs, demand_slope : Coefs,
     supply_intercept : Coefs, supply_slope : Coefs]
    \cup [demand_intercept : TinyCoefs, demand_slope : TinyCoefs,
          supply_intercept : TinyCoefs, supply_slope : TinyCoefs]

SurplusVals == {RInt(i) : i \in -1..MaxCoef}

SurplusInputs ==
    [equilibrium_quantity : SurplusVals \cup {RLit(1, 2, 0)},
     equilibrium_price : SurplusVals,
     demand_price_intercept : SurplusVals \cup {PosInf},
     supply_quantity_intercept : SurplusVals,
     supply_price_intercept : SurplusVals \cup {PosInf}]

NoFitIn == [x |-> <<>>, y |-> <<>>, n |-> 0]

NoSolveIn == [demand_intercept |-> Zero, demand_slope |-> Zero,
              supply_intercept |-> Zero, supply_slope |-> Zero]

NoSurIn == [equilibrium_quantity |-> Zero, equilibrium_price |-> Zero,
            demand_price_intercept |-> Zero, supply_quantity_intercept |-> Zero,
            supply_price_intercept |-> Zero]

\* no run of the analysis of src/analisis.py
NoAnalisis == [opcion |-> "", data |-> <<>>, curves |-> <<>>, out |-> Pending]

\* texts a user may type into an Entry: "2, 2", "0,,1", "2,0" and "1,x"
Texts == {<<"2", " 2">>, <<"0", "", "1">>, <<"2", "0">>, <<"1", "x">>}

\* what example_data.csv may hold (the file is not part of the program):
\* None when it cannot be read
ExampleFiles ==
    {None,
     [demand_prices |-> <<RInt(0), RInt(1)>>,
      demand_quantities |-> <<RInt(2), RInt(0)>>,
      supply_prices |-> <<RInt(0), RInt(1)>>,
      supply_quantities |-> <<RInt(0), RInt(2)>>]}

(***************************************************************************)
(* The application.                                                        *)
(***************************************************************************)
AppInit ==
    /\ entries = [f \in Fields |-> EmptyText]
       \* create_results_tab, create_graph_tab: both buttons start disabled
    /\ results = EmptyDict
    /\ current_figure = None
    /\ export_button = "disabled"
    /\ save_graph_button = "disabled"
    /\ last = Idle

AppIdle ==
    /\ entries = [f \in Fields |-> EmptyText]
    /\ results = EmptyDict
    /\ current_figure = None
    /\ export_button = "disabled"
    /\ save_graph_button = "disabled"
    /\ last = Idle

HarnessIdle ==
    /\ fitIn = NoFitIn /\ fitOut = Pending
    /\ solveIn = NoSolveIn /\ solveOut = Pending
    /\ surIn = NoSurIn /\ surOut = Pending
    /\ stagesIn = NoSolveIn /\ stagesOut = NotRun
    /\ analisis = NoAnalisis

appVars == <<entries, results, current_figure, export_button,
             save_graph_button, last>>

harnessVars == <<fitIn, fitOut, solveIn, solveOut, surIn, surOut, stagesIn,
                 stagesOut, analisis>>

\* the user types the prices and the quantities of one curve into its two
\* Entry widgets (no handler is bound to the edits themselves)
edit_entries ==
    \E curve \in {"demand", "supply"}, prices \in Texts, quantities \in Texts :
        /\ entries' = [entries EXCEPT ![curve \o "_prices"] = prices,
                                      ![curve \o "_quantities"] = quantities]
        /\ entries' # entries
        /\ last' = Handled("edit", <<>>, None, NoCaught, NoBox)
        /\ UNCHANGED <<results, current_figure, export_button,
                       save_graph_button, harnessVars>>

\* ",".join(map(str, values)) as the pieces of the text
join_str(values) ==
    IF values = <<>> THEN EmptyText
    ELSE [i \in 1..Len(values) |->
            CHOOSE t \in {"0", "1", "2"} :
                NumeralValue[t] = values[i]]

load_example_data ==
    \E example_data \in ExampleFiles :
        /\ IF example_data # None
           THEN /\ entries' = [f \in Fields |-> join_str(example_data[f])]
                /\ last' = Handled("load_example_data", <<>>, None, NoCaught,
                                   NoBox)
           ELSE /\ entries' = entries
                /\ last' = Handled("load_example_data", <<>>, None, NoCaught,
                                   Box("error", "Error",
                                       "Could not load example data from CSV file"))
        /\ UNCHANGED <<results, current_figure, export_button,
                       save_graph_button, harnessVars>>

\* clear_data dropping the stored results and figure with the entries
clear_data_drops_results ==
    /\ entries' = [f \in Fields |-> EmptyText]
    /\ results' = EmptyDict
    /\ current_figure' = None
    /\ last' = Handled("clear_data", <<>>, None, NoCaught, NoBox)
    /\ UNCHANGED <<export_button, save_graph_button, harnessVars>>

clear_data ==
    /\ entries' = [f \in Fields |-> EmptyText]
    /\ last' = Handled("clear_data", <<>>, None, NoCaught, NoBox)
    /\ UNCHANGED <<results, current_figure, export_button, save_graph_button,
                   harnessVars>>

\* calculate_results keeping the results it already stores
calculate_results_keeps_stored ==
    \E parsed \in {[f \in Fields |-> parse_data_string(entries[f])]} :
    \E valid \in {validate_data(parsed.demand_prices, parsed.demand_quantities,
                                parsed.supply_prices, parsed.supply_quantities)} :
    \E curves \in {IF valid[1]
                   THEN calculate_curves(parsed.demand_prices,
                                         parsed.demand_quantities,
                                         parsed.supply_prices,
                                         parsed.supply_quantities)
                   ELSE NotRun} :
    \E equilibrium_data \in
            {IF curves.st = "returned"
             THEN calculate_equilibrium_and_surpluses(
                      curves.val[1], curves.val[2], curves.val[3], curves.val[4])
             ELSE NotRun} :
    \E calls \in {<<"validate_data">> \o curves.calls \o equilibrium_data.calls} :
        /\ IF ~valid[1]
           THEN \* messagebox.showerror("Error", error_message); return
                /\ last' = Handled("calculate_results", calls, None, NoCaught,
                                   Box("error", "Error", valid[2]))
                /\ UNCHANGED <<results, current_figure, export_button,
                               save_graph_button>>
           ELSE IF curves.st = "raised"
           THEN \* except ValueError as error
                /\ last' = Handled("calculate_results", calls, None,
                                   Caught(curves),
                                   Box("error", "Error",
                                       "Calculation error: " \o curves.msg))
                /\ UNCHANGED <<results, current_figure, export_button,
                               save_graph_button>>
           ELSE IF equilibrium_data.st = "raised"
           THEN \* except ValueError as error
                /\ last' = Handled("calculate_results", calls, curves.val,
                                   Caught(equilibrium_data),
                                   Box("error", "Error",
                                       "Calculation error: "
                                            \o equilibrium_data.msg))
                /\ UNCHANGED <<results, current_figure, export_button,
                               save_graph_button>>
           ELSE /\ results' =
                        IF results # EmptyDict THEN results ELSE
                        [demand_intercept |-> curves.val[1],
                         demand_slope |-> curves.val[2],
                         supply_intercept |-> curves.val[3],
                         supply_slope |-> curves.val[4]] @@ equilibrium_data.val
                /\ current_figure' = create_supply_demand_graph(results')
                /\ export_button' = "normal"
                /\ save_graph_button' = "normal"
                /\ last' = Handled("calculate_results",
                                   calls \o <<"update_results_tab",
                                              "update_graph_tab">>,
                                   curves.val, NoCaught,
                                   Box("info", "Success",
                                       "Calculations completed successfully!"))
        /\ UNCHANGED <<entries, harnessVars>>

\* each \E binds the value of one statement of the handler
calculate_results ==
    \E parsed \in {[f \in Fields |-> parse_data_string(entries[f])]} :
    \E valid \in {validate_data(parsed.demand_prices, parsed.demand_quantities,
                                parsed.supply_prices, parsed.supply_quantities)} :
    \E curves \in {IF valid[1]
                   THEN calculate_curves(parsed.demand_prices,
                                         parsed.demand_quantities,
                                         parsed.supply_prices,
                                         parsed.supply_quantities)
                   ELSE NotRun} :
    \E equilibrium_data \in
            {IF curves.st = "returned"
             THEN calculate_equilibrium_and_surpluses(
                      curves.val[1], curves.val[2], curves.val[3], curves.val[4])
             ELSE NotRun} :
    \E calls \in {<<"validate_data">> \o curves.calls \o equilibrium_data.calls} :
        /\ IF ~valid[1]
           THEN \* messagebox.showerror("Error", error_message); return
                /\ last' = Handled("calculate_results", calls, None, NoCaught,
                                   Box("error", "Error", valid[2]))
                /\ UNCHANGED <<results, current_figure, export_button,
                               save_graph_button>>
           ELSE IF curves.st = "raised"
           THEN \* except ValueError as error
                /\ last' = Handled("calculate_results", calls, None,
                                   Caught(curves),
                                   Box("error", "Error",
                                       "Calculation error: " \o curves.msg))
                /\ UNCHANGED <<results, current_figure, export_button,
                               save_graph_button>>
           ELSE IF equilibrium_data.st = "raised"
           THEN \* except ValueError as error
                /\ last' = Handled("calculate_results", calls, curves.val,
                                   Caught(equilibrium_data),
                                   Box("error", "Error",
                                       "Calculation error: "
                                            \o equilibrium_data.msg))
                /\ UNCHANGED <<results, current_figure, export_button,
                               save_graph_button>>
           ELSE /\ results' =
                        [demand_intercept |-> curves.val[1],
                         demand_slope |-> curves.val[2],
                         supply_intercept |-> curves.val[3],
                         supply_slope |-> curves.val[4]] @@ equilibrium_data.val
                /\ current_figure' = create_supply_demand_graph(results')
                /\ export_button' = "normal"
                /\ save_graph_button' = "normal"
                /\ last' = Handled("calculate_results",
                                   calls \o <<"update_results_tab",
                                              "update_graph_tab">>,
                                   curves.val, NoCaught,
                                   Box("info", "Success",
                                       "Calculations completed successfully!"))
        /\ UNCHANGED <<entries, harnessVars>>

\* the Export button's command: the button must be enabled to be pressed;
\* filename is what the file dialog returns ("" when cancelled), written
\* whether the file could be written
export_to_csv ==
    /\ export_button = "normal"
    /\ \E filename \in {"", "results.csv"}, written \in BOOLEAN :
        last' = Handled("export_to_csv", <<>>, None, NoCaught,
                    IF results = EmptyDict
                    THEN Box("warning", "Warning", "No results to export")
                    ELSE IF filename = "" THEN NoBox
                    ELSE IF written
                    THEN Box("info", "Success",
                             "Results exported to " \o filename)
                    ELSE Box("error", "Error", "Export failed: "))
    /\ UNCHANGED <<entries, results, current_figure, export_button,
                   save_graph_button, harnessVars>>

save_graph ==
    /\ save_graph_button = "normal"
    /\ \E filename \in {"", "graph.png"}, written \in BOOLEAN :
        last' = Handled("save_graph", <<>>, None, NoCaught,
                    IF current_figure = None
                    THEN Box("warning", "Warning", "No graph to save")
                    ELSE IF filename = "" THEN NoBox
                    ELSE IF written
                    THEN Box("info", "Success", "Graph saved to " \o filename)
                    ELSE Box("error", "Error", "Save failed: "))
    /\ UNCHANGED <<entries, results, current_figure, export_button,
                   save_graph_button, harnessVars>>

Init == AppInit /\ HarnessIdle

Next ==
    \/ edit_entries
    \/ load_example_data
    \/ clear_data
    \/ calculate_results
    \/ export_to_csv
    \/ save_graph

Spec == Init /\ [][Next]_vars

(***************************************************************************)
(* The functions of src/funct.py on their own, over bounded inputs.        *)
(***************************************************************************)
FitInit ==
    /\ fitIn \in FitInputs /\ fitOut = Pending
    /\ solveIn = NoSolveIn /\ solveOut = Pending
    /\ surIn = NoSurIn /\ surOut = Pending
    /\ stagesIn = NoSolveIn /\ stagesOut = NotRun
    /\ analisis = NoAnalisis
    /\ AppIdle

FitCall ==
    /\ fitOut = Pending
    /\ fitOut' = perform_calculations(fitIn.x, fitIn.y, fitIn.n)
    /\ UNCHANGED <<fitIn, solveIn, solveOut, surIn, surOut, stagesIn,
                   stagesOut, analisis, appVars>>

SpecFit == FitInit /\ [][FitCall]_vars

SolveInit ==
    /\ solveIn \in SolveInputs /\ solveOut = Pending
    /\ fitIn = NoFitIn /\ fitOut = Pending
    /\ surIn = NoSurIn /\ surOut = Pending
    /\ stagesIn = NoSolveIn /\ stagesOut = NotRun
    /\ analisis = NoAnalisis
    /\ AppIdle

SolveCall ==
    /\ solveOut = Pending
    /\ solveOut' = calculate_equilibrium(solveIn.demand_intercept,
                                         solveIn.demand_slope,
                                         solveIn.supply_intercept,
                                         solveIn.supply_slope)
    /\ UNCHANGED <<fitIn, fitOut, solveIn, surIn, surOut, stagesIn,
                   stagesOut, analisis, appVars>>

SpecSolve == SolveInit /\ [][SolveCall]_vars

SurplusInit ==
    /\ surIn \in SurplusInputs /\ surOut = Pending
    /\ fitIn = NoFitIn /\ fitOut = Pending
    /\ solveIn = NoSolveIn /\ solveOut = Pending
    /\ stagesIn = NoSolveIn /\ stagesOut = NotRun
    /\ analisis = NoAnalisis
    /\ AppIdle

SurplusCall ==
    /\ surOut = Pending
    /\ surOut' = calculate_surpluses(surIn.equilibrium_quantity,
                                     surIn.equilibrium_price,
                                     surIn.demand_price_intercept,
                                     surIn.supply_quantity_intercept,
                                     surIn.supply_price_intercept)
    /\ UNCHANGED <<fitIn, fitOut, solveIn, solveOut, surIn, stagesIn,
                   stagesOut, analisis, appVars>>

SpecSurplus == SurplusInit /\ [][SurplusCall]_vars

(***************************************************************************)
(* Calculator.calculate_equilibrium_and_surpluses on its own, over bounded *)
(* curves.                                                                 *)
(***************************************************************************)
StagesInputs == SolveInputs

StagesInit ==
    /\ stagesIn \in StagesInputs /\ stagesOut = NotRun
    /\ fitIn = NoFitIn /\ fitOut = Pending
    /\ solveIn = NoSolveIn /\ solveOut = Pending
    /\ surIn = NoSurIn /\ surOut = Pending
    /\ analisis = NoAnalisis
    /\ AppIdle

StagesCall ==
    /\ stagesOut = NotRun
    /\ stagesOut' = calculate_equilibrium_and_surpluses(
                        stagesIn.demand_intercept, stagesIn.demand_slope,
                        stagesIn.supply_intercept, stagesIn.supply_slope)
    /\ UNCHANGED <<fitIn, fitOut, solveIn, solveOut, surIn, surOut, stagesIn,
                   analisis, appVars>>

SpecStages == StagesInit /\ [][StagesCall]_vars

(***************************************************************************)
(* Calculator.calculate_equilibrium_and_surpluses in rounded arithmetic,   *)
(* over curves whose coefficients are floats of Precision bits: small      *)
(* integers, and a supply curve that is flat at quantity 0.                *)
(***************************************************************************)
MaxRoundedCoef == 4

RoundedCoefs == {RInt(i) : i \in -MaxRoundedCoef..MaxRoundedCoef}

RoundedInputs ==
    [demand_intercept : RoundedCoefs, demand_slope : RoundedCoefs,
     supply_intercept : RoundedCoefs, supply_slope : RoundedCoefs]
    \cup [demand_intercept : {RInt(i) : i \in 0..(Pow2(Precision) - 1)},
          demand_slope : {RInt(-i) : i \in 1..(Pow2(Precision) - 1)},
          supply_intercept : {Zero}, supply_slope : {Zero}]

RoundedInit ==
    /\ stagesIn \in RoundedInputs /\ stagesOut = NotRun
    /\ fitIn = NoFitIn /\ fitOut = Pending
    /\ solveIn = NoSolveIn /\ solveOut = Pending
    /\ surIn = NoSurIn /\ surOut = Pending
    /\ analisis = NoAnalisis
    /\ AppIdle

RoundedCall ==
    /\ stagesOut = NotRun
    /\ stagesOut' = calculate_equilibrium_and_surpluses_rounded(
                        stagesIn.demand_intercept, stagesIn.demand_slope,
                        stagesIn.supply_intercept, stagesIn.supply_slope)
    /\ UNCHANGED <<fitIn, fitOut, solveIn, solveOut, surIn, surOut, stagesIn,
                   analisis, appVars>>

SpecRounded == RoundedInit /\ [][RoundedCall]_vars

(***************************************************************************)
(* src/analisis.py: the two analyses of the script, on the data and the    *)
(* parameters it holds and on other small ones.  The script calls          *)
(* perform_calculations and plot_curves by their former names,             *)
(* realizar_calculos and graficar_curvas.                                  *)
(***************************************************************************)
RSeq(ints) == [i \in 1..Len(ints) |-> RInt(ints[i])]

\* case "1": valores_P and the two valores_Q, of the demand and of the supply
valores_P == RSeq(<<4, 5, 6, 7, 8, 9>>)

valores_Q_demand == RSeq(<<135, 104, 81, 68, 53, 39>>)

valores_Q_supply == RSeq(<<26, 53, 81, 98, 110, 121>>)

ExampleSamples ==
    [valores_P |-> valores_P, valores_Q_demand |-> valores_Q_demand,
     valores_Q_supply |-> valores_Q_supply]

\* case "2": b0d, b1d, b0s, b1s
ExampleParameters ==
    [b0d |-> RInt(15000), b1d |-> RInt(-2500),
     b0s |-> RInt(2000), b1s |-> RInt(7500)]

SamplePrices == {[i \in 1..m |-> RInt(i - 1)] : m \in 2..MaxLen}
                    \cup {<<RInt(1), RInt(1)>>}

SampleQuantities == UNION {[1..m -> {RInt(0), RInt(2)}] : m \in 2..MaxLen}

AnalisisInputs ==
    {[opcion |-> "1", data |-> d] :
        d \in {ExampleSamples}
              \cup [valores_P : SamplePrices,
                    valores_Q_demand : SampleQuantities,
                    valores_Q_supply : SampleQuantities]}
    \cup
    {[opcion |-> "2", data |-> d] :
        d \in {ExampleParameters}
              \cup [b0d : Coefs, b1d : Coefs, b0s : Coefs, b1s : Coefs]}

AnalisisInit ==
    /\ \E input \in AnalisisInputs :
          analisis = [opcion |-> input.opcion, data |-> input.data,
                      curves |-> <<>>, out |-> Pending]
    /\ fitIn = NoFitIn /\ fitOut = Pending
    /\ solveIn = NoSolveIn /\ solveOut = Pending
    /\ surIn = NoSurIn /\ surOut = Pending
    /\ stagesIn = NoSolveIn /\ stagesOut = NotRun
    /\ AppIdle

\* case "1": fit the demand, fit the supply, plot the curves; an error of a
\* call ends the script
opcion_1 ==
    /\ analisis.opcion = "1" /\ analisis.out = Pending
    /\ \E demand \in {perform_calculations(analisis.data.valores_P,
                                           analisis.data.valores_Q_demand,
                                           Len(analisis.data.valores_P))} :
       \E supply \in {IF demand.st = "returned"
                      THEN perform_calculations(analisis.data.valores_P,
                                                analisis.data.valores_Q_supply,
                                                Len(analisis.data.valores_P))
                      ELSE Pending} :
          analisis' =
            IF demand.st = "raised" THEN [analisis EXCEPT !.out = demand]
            ELSE IF supply.st = "raised" THEN [analisis EXCEPT !.out = supply]
            ELSE [analisis EXCEPT
                    !.curves = <<demand.val[1], demand.val[2],
                                 supply.val[1], supply.val[2]>>,
                    !.out = calculate_plot_data(demand.val[1], demand.val[2],
                                                supply.val[1], supply.val[2])]
    /\ UNCHANGED <<fitIn, fitOut, solveIn, solveOut, surIn, surOut, stagesIn,
                   stagesOut, appVars>>

\* case "2": plot the curves of the four parameters
opcion_2 ==
    /\ analisis.opcion = "2" /\ analisis.out = Pending
    /\ analisis' =
         [analisis EXCEPT
            !.curves = <<analisis.data.b0d, analisis.data.b1d,
                         analisis.data.b0s, analisis.data.b1s>>,
            !.out = calculate_plot_data(analisis.data.b0d, analisis.data.b1d,
                                        analisis.data.b0s, analisis.data.b1s)]
    /\ UNCHANGED <<fitIn, fitOut, solveIn, solveOut, surIn, surOut, stagesIn,
                   stagesOut, appVars>>

AnalisisNext == opcion_1 \/ opcion_2

SpecAnalisis == AnalisisInit /\ [][AnalisisNext]_vars

(***************************************************************************)
(* Properties.  The sums of a sample series, written index by index.       *)
(***************************************************************************)
RECURSIVE SigmaProduct(_, _, _)
SigmaProduct(a, b, i) ==
    IF i = 0 THEN Zero
    ELSE RAdd(SigmaProduct(a, b, i - 1), RMul(a[i], b[i]))

Ones(k) == [i \in 1..k |-> RInt(1)]

SigmaX == SigmaProduct(fitIn.x, Ones(fitIn.n), fitIn.n)

SigmaY == SigmaProduct(fitIn.y, Ones(fitIn.n), fitIn.n)

SigmaXX == SigmaProduct(fitIn.x, fitIn.x, fitIn.n)

SigmaXY == SigmaProduct(fitIn.x, fitIn.y, fitIn.n)

\* the call under study was given n >= 2 points: x, y of length n
FitOfPoints ==
    /\ fitOut.st # "pending"
    /\ fitIn.n >= 2 /\ Len(fitIn.x) = fitIn.n /\ Len(fitIn.y) = fitIn.n

\* Sigma x^2 - (Sigma x)^2 / n
FitDenominator == RSub(SigmaXX, RDiv(RMul(SigmaX, SigmaX), RInt(fitIn.n)))

FitDegenerate == RAbsBelow(FitDenominator, DenominatorTolExp)

\* C1: for equal-length x (first argument) and y (second argument) of n >= 2
\* points whose denominator Sigma x^2 - (Sigma x)^2/n is not below the
\* tolerance, perform_calculations returns (intercept, slope) with
\* slope * (Sigma x^2 - (Sigma x)^2/n) = Sigma xy - (Sigma x * Sigma y)/n and
\* intercept * n = Sigma y - slope * Sigma x.
C1_FitFormulas ==
    (FitOfPoints /\ ~FitDegenerate) =>
        /\ fitOut.st = "returned"
        /\ LET intercept == fitOut.val[1]
               slope == fitOut.val[2]
           IN  /\ RMul(slope, FitDenominator)
                    = RSub(SigmaXY, RDiv(RMul(SigmaX, SigmaY), RInt(fitIn.n)))
               /\ RMul(intercept, RInt(fitIn.n))
                    = RSub(SigmaY, RMul(slope, SigmaX))

\* a fit of three points, not on one line, with slope and intercept not 0
C1_Witness ==
    /\ FitOfPoints /\ fitIn.n = 3 /\ fitOut.st = "returned"
    /\ fitOut.val[1] # Zero /\ fitOut.val[2] # Zero
    /\ \E i \in 1..3 :
          fitIn.y[i] # RAdd(fitOut.val[1], RMul(fitOut.val[2], fitIn.x[i]))

AllSame(s) == \A i, j \in 1..Len(s) : s[i] = s[j]

Solved == solveOut.st # "pending"

SlopeDifference == RSub(solveIn.demand_slope, solveIn.supply_slope)

Parallel == RAbsBelow(SlopeDifference, ParallelTolExp)

\* C3: whenever calculate_equilibrium returns (price, quantity),
\* price * (demand_slope - supply_slope) = supply_intercept - demand_intercept,
\* quantity = demand_intercept + demand_slope * price, and the point lies on
\* the supply curve too: quantity = supply_intercept + supply_slope * price.
C3_EquilibriumIsIntersection ==
    solveOut.st = "returned" =>
        LET price == solveOut.val[1]
            quantity == solveOut.val[2]
        IN  /\ RMul(price, SlopeDifference)
                 = RSub(solveIn.supply_intercept, solveIn.demand_intercept)
            /\ quantity = RAdd(solveIn.demand_intercept,
                               RMul(solveIn.demand_slope, price))
            /\ quantity = RAdd(solveIn.supply_intercept,
                               RMul(solveIn.supply_slope, price))

\* a returned point with positive price and quantity, of two sloped curves
\* with different intercepts
C3_Witness ==
    /\ solveOut.st = "returned"
    /\ RGtZero(solveOut.val[1]) /\ RGtZero(solveOut.val[2])
    /\ solveIn.demand_slope # Zero /\ solveIn.supply_slope # Zero
    /\ solveIn.demand_intercept # Zero /\ solveIn.supply_intercept # Zero

\* the signs of the algebraic intersection of two curves that are not
\* parallel: price (si - di) / (ds - ss), quantity (ds*si - di*ss) / (ds - ss)
IntersectionPriceSign ==
    RSign(RSub(solveIn.supply_intercept, solveIn.demand_intercept))
        * RSign(SlopeDifference)

IntersectionQuantitySign ==
    RSign(RSub(RMul(solveIn.demand_slope, solveIn.supply_intercept),
               RMul(solveIn.demand_intercept, solveIn.supply_slope)))
        * RSign(SlopeDifference)

C9_ParallelCurvesFail ==
    (Solved /\ Parallel) =>
        /\ solveOut.st = "raised"
        /\ solveOut.exc = "ValueError"
        /\ solveOut.msg
             = "Demand and supply curves are parallel - no equilibrium exists"
        /\ solveOut.val = NoValue
        /\ solveOut.divs = <<>>

\* slopes that differ by less than the tolerance, whose curves meet at a
\* negative price
C9_Witness ==
    /\ Solved /\ Parallel /\ SlopeDifference # Zero
    /\ IntersectionPriceSign < 0
    /\ solveOut.st = "raised"

(***************************************************************************)
(* Properties of calculate_surpluses.                                      *)
(***************************************************************************)
SurplusOfPositive ==
    /\ surOut.st # "pending"
    /\ RGtZero(surIn.equilibrium_price) /\ RGtZero(surIn.equilibrium_quantity)

\* C4: for a positive equilibrium price and quantity, calculate_surpluses
\* returns, and twice the producer surplus is
\* (quantity + supply_quantity_intercept) * price when
\* supply_quantity_intercept > 0, and quantity * (price -
\* supply_price_intercept) otherwise, a supply_quantity_intercept of 0 included.
C4_ProducerSurplus ==
    SurplusOfPositive =>
        /\ surOut.st = "returned"
        /\ LET producer_surplus == surOut.val[2]
           IN  RMul(producer_surplus, RInt(2)) =
                 IF RGtZero(surIn.supply_quantity_intercept)
                 THEN RMul(RAdd(surIn.equilibrium_quantity,
                                surIn.supply_quantity_intercept),
                           surIn.equilibrium_price)
                 ELSE RMul(surIn.equilibrium_quantity,
                           RSub(surIn.equilibrium_price,
                                surIn.supply_price_intercept))

\* a supply_quantity_intercept of exactly 0, where the two formulas differ
C4_Witness ==
    /\ SurplusOfPositive /\ surOut.st = "returned"
    /\ surIn.supply_quantity_intercept = Zero
    /\ IsFinite(surIn.supply_price_intercept)
    /\ surIn.supply_price_intercept # Zero

\* C5: for a positive equilibrium price and quantity, twice the consumer
\* surplus calculate_surpluses returns is
\* quantity * (demand_price_intercept - price), whatever the two supply
\* arguments are and whichever producer-surplus formula applies.
C5_ConsumerSurplus ==
    SurplusOfPositive =>
        /\ surOut.st = "returned"
        /\ LET consumer_surplus == surOut.val[1]
           IN  RMul(consumer_surplus, RInt(2))
                 = RMul(surIn.equilibrium_quantity,
                        RSub(surIn.demand_price_intercept,
                             surIn.equilibrium_price))

\* the trapezoid branch, with a supply price intercept other than the demand
\* price intercept and a consumer surplus other than 0
C5_Witness ==
    /\ SurplusOfPositive /\ surOut.st = "returned"
    /\ RGtZero(surIn.supply_quantity_intercept)
    /\ surIn.supply_price_intercept # surIn.demand_price_intercept
    /\ IsFinite(surOut.val[1]) /\ surOut.val[1] # Zero

(***************************************************************************)
(* Properties of the application.                                          *)
(***************************************************************************)
\* the series calculate_results parsed from the Entry widgets, which it
\* leaves as they are
Parsed == [f \in Fields |-> parse_data_string(entries[f])]

Calculated == last.op = "calculate_results"

\* <<a, b>> when the samples have two distinct prices and all lie on the line
\* quantity = a + b * price; None otherwise
LineThrough(prices, quantities) ==
    IF Len(prices) # Len(quantities) \/ AllSame(prices) THEN None
    ELSE LET i == CHOOSE k \in 1..Len(prices) : prices[k] # prices[1]
             b == RDiv(RSub(quantities[i], quantities[1]),
                       RSub(prices[i], prices[1]))
             a == RSub(quantities[1], RMul(b, prices[1]))
         IN  IF \A k \in 1..Len(prices) :
                    quantities[k] = RAdd(a, RMul(b, prices[k]))
             THEN <<a, b>>
             ELSE None

\* C2: the curves calculate_results hands on to the equilibrium and surplus
\* stages are fitted with price as the independent variable: for samples on a
\* line quantity = a + b * price with two distinct prices, the demand curve
\* (and likewise the supply curve) handed on is intercept = a, slope = b.
C2_PipelineFitsQuantityOnPrice ==
    (Calculated /\ last.curves # None) =>
        /\ LineThrough(Parsed.demand_prices, Parsed.demand_quantities) # None =>
              <<last.curves[1], last.curves[2]>>
                 = LineThrough(Parsed.demand_prices, Parsed.demand_quantities)
        /\ LineThrough(Parsed.supply_prices, Parsed.supply_quantities) # None =>
              <<last.curves[3], last.curves[4]>>
                 = LineThrough(Parsed.supply_prices, Parsed.supply_quantities)

StageOrder ==
    <<"validate_data", "perform_calculations(demand)",
      "perform_calculations(supply)", "calculate_equilibrium",
      "calculate_surpluses">>

IsPrefix(s, t) == Len(s) <= Len(t) /\ \A i \in 1..Len(s) : s[i] = t[i]

\* calculate_results caught an error of the pipeline
Failed == Calculated /\ last.caught # NoCaught

\* what a stage of the pipeline does on the parsed series, given what the
\* stages before it returned
StageOutcome(stage) ==
    LET demand == perform_calculations(Parsed.demand_quantities,
                                       Parsed.demand_prices,
                                       Len(Parsed.demand_prices))
        supply == perform_calculations(Parsed.supply_quantities,
                                       Parsed.supply_prices,
                                       Len(Parsed.supply_prices))
        equilibrium == calculate_equilibrium(demand.val[1], demand.val[2],
                                             supply.val[1], supply.val[2])
    IN  CASE stage = "perform_calculations(demand)" -> demand
          [] stage = "perform_calculations(supply)" -> supply
          [] stage = "calculate_equilibrium" -> equilibrium
          [] stage = "calculate_surpluses" ->
                calculate_surpluses(
                    equilibrium.val[2], equilibrium.val[1],
                    price_intercept(demand.val[1], demand.val[2]),
                    supply.val[1],
                    price_intercept(supply.val[1], supply.val[2]))

\* the stages ran in order up to the first one that fails, and the error
\* caught is chained to that stage's error
FirstFailureCaught ==
    LET n == Len(last.calls)
    IN  /\ n >= 2
        /\ IsPrefix(last.calls, StageOrder)
        /\ validate_data(Parsed.demand_prices, Parsed.demand_quantities,
                         Parsed.supply_prices, Parsed.supply_quantities)[1]
        /\ \A i \in 2..(n - 1) : StageOutcome(last.calls[i]).st = "returned"
        /\ StageOutcome(last.calls[n]).st = "raised"
        /\ last.caught.cause = CauseOf(StageOutcome(last.calls[n]))

\* the message Calculator puts before the message of a stage's error
WrapperOf(stage) ==
    IF stage \in {"perform_calculations(demand)", "perform_calculations(supply)"}
    THEN "Error calculating curves: "
    ELSE "Error calculating equilibrium: "

\* C6 as stated: the stages run in order, none after the first failure, and
\* the caller receives the failing stage's error unchanged, same kind and
\* same message.
C6_FirstFailureVerbatim ==
    Failed =>
        /\ FirstFailureCaught
        /\ last.caught.exc = last.caught.cause.exc
        /\ last.caught.msg = last.caught.cause.msg

\* C6: the stages run in the order fit(demand), fit(supply), solve, surplus,
\* none after the first failure; calculate_results catches a ValueError whose
\* message is the failing stage's message after "Error calculating curves: "
\* (a fit) or "Error calculating equilibrium: " (solve, surplus), chained to
\* the stage's own error, and shows it after "Calculation error: ".
C6_FirstFailureWrapped ==
    /\ Calculated =>
          IsPrefix(last.calls,
                   StageOrder \o <<"update_results_tab", "update_graph_tab">>)
    /\ Failed =>
        /\ FirstFailureCaught
        /\ last.caught.exc = "ValueError"
        /\ last.caught.cause.exc = "ValueError"
        /\ last.caught.msg
             = WrapperOf(last.calls[Len(last.calls)]) \o last.caught.cause.msg
        /\ last.box = Box("error", "Error",
                          "Calculation error: " \o last.caught.msg)

\* the last stage fails after the three before it succeeded
C6_Witness ==
    /\ Failed
    /\ last.calls = StageOrder
    /\ last.caught.cause.msg = "Equilibrium values must be positive"

ResultFields ==
    {"demand_intercept", "demand_slope", "supply_intercept", "supply_slope",
     "equilibrium_price", "equilibrium_quantity", "consumer_surplus",
     "producer_surplus", "total_surplus"}

\* the series the four Entry widgets can hold when they are parsed
EntryValues ==
    {parse_data_string(text) : text \in Texts}
    \cup {parse_data_string(join_str(file[f])) :
            file \in ExampleFiles \ {None}, f \in Fields}

\* the record of one analysis of four series, EmptyDict when it fails
AnalysisOf(demand_prices, demand_quantities, supply_prices, supply_quantities) ==
    LET valid == validate_data(demand_prices, demand_quantities,
                               supply_prices, supply_quantities)
        curves == calculate_curves(demand_prices, demand_quantities,
                                   supply_prices, supply_quantities)
        equilibrium_data ==
            calculate_equilibrium_and_surpluses(curves.val[1], curves.val[2],
                                                curves.val[3], curves.val[4])
    IN  IF ~valid[1] THEN EmptyDict
        ELSE IF curves.st # "returned" THEN EmptyDict
        ELSE IF equilibrium_data.st # "returned" THEN EmptyDict
        ELSE [demand_intercept |-> curves.val[1],
              demand_slope |-> curves.val[2],
              supply_intercept |-> curves.val[3],
              supply_slope |-> curves.val[4]] @@ equilibrium_data.val

SuccessfulAnalyses ==
    {AnalysisOf(dp, dq, sp, sq) : dp \in EntryValues, dq \in EntryValues,
                                  sp \in EntryValues, sq \in EntryValues}
        \ {EmptyDict}

\* the stored record is empty or holds the nine fields of one analysis
RecordWhole ==
    \/ results = EmptyDict
    \/ /\ DOMAIN results = ResultFields
       /\ results \in SuccessfulAnalyses

\* a calculate_results call that shows an error changed nothing it stores
FailureLeavesResults ==
    (last'.op = "calculate_results" /\ last'.box.kind = "error") =>
        UNCHANGED <<results, current_figure, export_button, save_graph_button>>

InvalidInputMessages ==
    {"Input arrays cannot be empty", "All arrays must have the same length",
     "At least 2 data points are required for regression"}

\* C11: perform_calculations raises an invalid-input error (a ValueError with
\* one of the three messages above) before any arithmetic, returning no
\* curve, when a sequence is empty, the lengths of the two sequences or the
\* count of points differ, or there are fewer than 2 points; for sequences of
\* one length n >= 2 it raises none of them.
C11_InvalidInputFails ==
    fitOut.st # "pending" =>
        LET empty == fitIn.x = <<>> \/ fitIn.y = <<>>
            unequal == \/ Len(fitIn.x) # Len(fitIn.y)
                       \/ Len(fitIn.x) # fitIn.n
            few == fitIn.n < 2
        IN  /\ (empty \/ unequal \/ few) =>
                  /\ fitOut.st = "raised"
                  /\ fitOut.exc = "ValueError"
                  /\ fitOut.val = NoValue
                  /\ fitOut.divs = <<>>
                  /\ fitOut.msg =
                       IF empty THEN "Input arrays cannot be empty"
                       ELSE IF unequal
                       THEN "All arrays must have the same length"
                       ELSE "At least 2 data points are required for regression"
            /\ ~(empty \/ unequal \/ few) =>
                  fitOut.msg \notin InvalidInputMessages

\* one point in each sequence: equal lengths, fewer than 2 points
C11_Witness ==
    /\ fitOut.st = "raised"
    /\ Len(fitIn.x) = 1 /\ Len(fitIn.y) = 1 /\ fitIn.n = 1

\* C12: calculate_surpluses raises the positive-values error, returning no
\* surplus and dividing nothing, when the equilibrium price or quantity is
\* <= 0 (0 included), and returns when both are > 0.
C12_NonPositiveEquilibriumFails ==
    surOut.st # "pending" =>
        IF RLeZero(surIn.equilibrium_price) \/ RLeZero(surIn.equilibrium_quantity)
        THEN /\ surOut.st = "raised"
             /\ surOut.exc = "ValueError"
             /\ surOut.msg = "Equilibrium values must be positive"
             /\ surOut.val = NoValue
             /\ surOut.divs = <<>>
        ELSE surOut.st = "returned"

\* a price of exactly 0 with a positive quantity
C12_Witness ==
    /\ surOut.st = "raised"
    /\ surIn.equilibrium_price = Zero
    /\ RGtZero(surIn.equilibrium_quantity)

\* C13 as stated: for n >= 2 points on a line y = a + b * x with two distinct
\* x values, perform_calculations returns intercept a and slope b.
C13_CollinearFitExact ==
    (FitOfPoints /\ LineThrough(fitIn.x, fitIn.y) # None) =>
        /\ fitOut.st = "returned"
        /\ fitOut.val = LineThrough(fitIn.x, fitIn.y)

\* C13: for n >= 2 points on a line y = a + b * x whose denominator
\* Sigma x^2 - (Sigma x)^2/n is not below the tolerance, perform_calculations
\* returns intercept a and slope b, so that the fitted line passes through
\* every point; when the denominator is below the tolerance it raises the
\* degenerate-fit error although the x values are distinct.
C13_CollinearFitAboveTolerance ==
    (FitOfPoints /\ LineThrough(fitIn.x, fitIn.y) # None) =>
        IF FitDegenerate
        THEN /\ fitOut.st = "raised"
             /\ fitOut.msg
                  = "Cannot calculate slope: denominator is too close to zero"
        ELSE /\ fitOut.st = "returned"
             /\ fitOut.val = LineThrough(fitIn.x, fitIn.y)
             /\ \A i \in 1..fitIn.n :
                   fitIn.y[i] = RAdd(fitOut.val[1],
                                     RMul(fitOut.val[2], fitIn.x[i]))

\* three points, not all of one x, on a line of slope other than 0
C13_Witness ==
    /\ FitOfPoints /\ fitIn.n = 3 /\ fitOut.st = "returned"
    /\ LineThrough(fitIn.x, fitIn.y) # None
    /\ fitOut.val[2] # Zero

(***************************************************************************)
(* Properties of the analyses of src/analisis.py.                          *)
(***************************************************************************)
RAbs(a) == IF RLtZero(a) THEN RNeg(a) ELSE a

\* a, rounded to k decimals, is m / 10^k: |a * 10^k - m| <= 1/2
RoundsTo(a, m, k) ==
    /\ IsFinite(a)
    /\ RLeZero(RSub(RMul(RInt(2),
                         RAbs(RSub(RMul(a, RInt(Pow10(k))), RInt(m)))),
                    RInt(1)))

\* the analysis of the sample data of case "1" has ended
ExampleAnalysed ==
    /\ analisis.opcion = "1" /\ analisis.data = ExampleSamples
    /\ analisis.out.st # "pending"

\* C14 as stated: the sample data of case "1" yield demand intercept 253.76
\* and slope -23.94, supply intercept -112.46 and slope 26.69, equilibrium
\* price 7.23 and quantity 80.8, each rounded to the decimals given.
C14_ExampleAsStated ==
    ExampleAnalysed =>
        /\ analisis.out.st = "returned"
        /\ RoundsTo(analisis.curves[1], 25376, 2)
        /\ RoundsTo(analisis.curves[2], -2394, 2)
        /\ RoundsTo(analisis.curves[3], -11246, 2)
        /\ RoundsTo(analisis.curves[4], 2669, 2)
        /\ RoundsTo(analisis.out.val.equilibrium_price, 723, 2)
        /\ RoundsTo(analisis.out.val.equilibrium_quantity, 808, 1)

\* C14: fitted with price as the first argument of perform_calculations, the
\* sample data of case "1" yield demand intercept 199.97 and slope -18.46,
\* supply intercept -41.63 and slope 18.94, and calculate_equilibrium on
\* these curves yields price 6.46 and quantity 80.7, each rounded to the
\* decimals given (exactly 6999/35, -646/35, -1457/35, 663/35, 1208/187 and
\* 6217/77).
C14_ExampleFit ==
    ExampleAnalysed =>
        /\ analisis.out.st = "returned"
        /\ RoundsTo(analisis.curves[1], 19997, 2)
        /\ RoundsTo(analisis.curves[2], -1846, 2)
        /\ RoundsTo(analisis.curves[3], -4163, 2)
        /\ RoundsTo(analisis.curves[4], 1894, 2)
        /\ RoundsTo(analisis.out.val.equilibrium_price, 646, 2)
        /\ RoundsTo(analisis.out.val.equilibrium_quantity, 807, 1)
        /\ analisis.curves = <<RLit(6999, 35, 0), RLit(-646, 35, 0),
                               RLit(-1457, 35, 0), RLit(663, 35, 0)>>
        /\ analisis.out.val.equilibrium_price = RLit(1208, 187, 0)
        /\ analisis.out.val.equilibrium_quantity = RLit(6217, 77, 0)

\* the six-point sample data analysed to the end
C14_Witness ==
    /\ ExampleAnalysed /\ analisis.out.st = "returned"
    /\ Len(analisis.data.valores_P) = 6

\* the analysis of the parameters of case "2" has ended
ParametersAnalysed ==
    /\ analisis.opcion = "2" /\ analisis.data = ExampleParameters
    /\ analisis.out.st # "pending"

\* C15: for demand intercept 15000, slope -2500 and supply intercept 2000,
\* slope 7500 the equilibrium is price 1.3, quantity 11750; the supply
\* quantity intercept 2000 is > 0, the demand price intercept is 6, and the
\* surpluses are producer (11750 + 2000) * 1.3 / 2 = 8937.5 and consumer
\* 11750 * (6 - 1.3) / 2 = 27612.5.
C15_ParametersExample ==
    ParametersAnalysed =>
        /\ analisis.out.st = "returned"
        /\ analisis.out.val.equilibrium_price = RLit(13, 1, 1)
        /\ analisis.out.val.equilibrium_quantity = RInt(11750)
        /\ RGtZero(analisis.out.val.supply_quantity_intercept)
        /\ analisis.out.val.supply_quantity_intercept = RInt(2000)
        /\ analisis.out.val.demand_price_intercept = RInt(6)
        /\ analisis.out.val.producer_surplus = RLit(17875, 2, 0)
        /\ analisis.out.val.consumer_surplus = RLit(55225, 2, 0)

\* the parameters of case "2" analysed to the end
C15_Witness ==
    /\ ParametersAnalysed /\ analisis.out.st = "returned"
    /\ analisis.curves[1] = RInt(15000)

(***************************************************************************)
(* Properties of repeated analyses.                                        *)
(***************************************************************************)
\* the text of the error box for four series whose analysis fails
FailureTextOf(demand_prices, demand_quantities, supply_prices, supply_quantities) ==
    LET valid == validate_data(demand_prices, demand_quantities,
                               supply_prices, supply_quantities)
        curves == calculate_curves(demand_prices, demand_quantities,
                                   supply_prices, supply_quantities)
        equilibrium_data ==
            calculate_equilibrium_and_surpluses(curves.val[1], curves.val[2],
                                                curves.val[3], curves.val[4])
    IN  IF ~valid[1] THEN valid[2]
        ELSE IF curves.st = "raised" THEN "Calculation error: " \o curves.msg
        ELSE "Calculation error: " \o equilibrium_data.msg

\* the outcome of the last calculate_results call is that of its entries
OutcomeOfEntries ==
    Calculated =>
        LET analysis == AnalysisOf(Parsed.demand_prices, Parsed.demand_quantities,
                                   Parsed.supply_prices, Parsed.supply_quantities)
        IN  IF analysis # EmptyDict
            THEN /\ last.box.kind = "info"
                 /\ results = analysis
                 /\ current_figure = create_supply_demand_graph(analysis)
            ELSE /\ last.box = Box("error", "Error",
                                   FailureTextOf(Parsed.demand_prices,
                                                 Parsed.demand_quantities,
                                                 Parsed.supply_prices,
                                                 Parsed.supply_quantities))

\* a calculate_results call right after another, on the same entries, ends
\* as the first did
RepeatedCallAgrees ==
    (last.op = "calculate_results" /\ last'.op = "calculate_results"
        /\ entries' = entries) =>
            /\ last' = last
            /\ last.box.kind = "info" =>
                  /\ results' = results
                  /\ current_figure' = current_figure

PriceAxisIntercept(intercept, slope) ==
    IF slope = Zero THEN PosInf ELSE RDiv(RNeg(intercept), slope)

StagesSolved ==
    calculate_equilibrium(stagesIn.demand_intercept, stagesIn.demand_slope,
                          stagesIn.supply_intercept, stagesIn.supply_slope)

StagesReturned == stagesOut # NotRun /\ stagesOut.st = "returned"

StagesRaised == stagesOut # NotRun /\ stagesOut.st = "raised"

StagesPlotData ==
    calculate_plot_data(stagesIn.demand_intercept, stagesIn.demand_slope,
                        stagesIn.supply_intercept, stagesIn.supply_slope)

\* the surpluses of a point for the axis intercepts of the two curves
SurplusesFromAxes(quantity, price, demand_axis, supply_quantity_axis, supply_axis) ==
    [consumer |-> RDiv(RMul(quantity, RSub(demand_axis, price)), RInt(2)),
     producer |->
        IF RGtZero(supply_quantity_axis)
        THEN RDiv(RMul(RAdd(quantity, supply_quantity_axis), price), RInt(2))
        ELSE RDiv(RMul(quantity, RSub(price, supply_axis)), RInt(2))]

\* C17: when calculate_equilibrium_and_surpluses returns, its surpluses are
\* those of the point calculate_equilibrium returned for the same curves,
\* for the demand price-axis intercept -intercept/slope (infinite for slope
\* 0), the supply intercept as quantity intercept and the supply price-axis
\* intercept; _calculate_plot_data reports these intercepts, the curves'
\* intercepts as quantity-axis intercepts, and the same surpluses.
C17_AxisInterceptsFedToSurpluses ==
    StagesReturned =>
        LET point == StagesSolved.val
            expected ==
                SurplusesFromAxes(point[2], point[1],
                    PriceAxisIntercept(stagesIn.demand_intercept,
                                       stagesIn.demand_slope),
                    stagesIn.supply_intercept,
                    PriceAxisIntercept(stagesIn.supply_intercept,
                                       stagesIn.supply_slope))
            plot == StagesPlotData
        IN  /\ stagesOut.val.equilibrium_price = point[1]
            /\ stagesOut.val.equilibrium_quantity = point[2]
            /\ stagesOut.val.consumer_surplus = expected.consumer
            /\ stagesOut.val.producer_surplus = expected.producer
            /\ plot.st = "returned"
            /\ plot.val.demand_price_intercept =
                    PriceAxisIntercept(stagesIn.demand_intercept,
                                       stagesIn.demand_slope)
            /\ plot.val.supply_price_intercept =
                    PriceAxisIntercept(stagesIn.supply_intercept,
                                       stagesIn.supply_slope)
            /\ plot.val.demand_quantity_intercept = stagesIn.demand_intercept
            /\ plot.val.supply_quantity_intercept = stagesIn.supply_intercept
            /\ plot.val.consumer_surplus = expected.consumer
            /\ plot.val.producer_surplus = expected.producer

\* a returned analysis of curves whose price-axis intercepts are finite,
\* not zero and of opposite sign to intercept/slope, the producer surplus
\* being the triangle over the supply price-axis intercept
C17_Witness ==
    /\ StagesReturned
    /\ stagesIn.demand_slope # Zero /\ stagesIn.demand_intercept # Zero
    /\ stagesIn.supply_slope # Zero /\ RLtZero(stagesIn.supply_intercept)
    /\ RGtZero(stagesOut.val.producer_surplus)

\* C18: when calculate_equilibrium returns a point for the curves, the
\* analysis raises if and only if the price of that point is exactly 0 or
\* its quantity is exactly 0; it then ran both stages, its error is the
\* "Equilibrium values must be positive" error of calculate_surpluses,
\* carried as the cause of the ValueError of Calculator, and it has no value.
C18_ZeroEquilibriumAcceptedThenRejected ==
    (stagesOut # NotRun /\ StagesSolved.st = "returned") =>
        /\ StagesRaised <=>
                (StagesSolved.val[1] = Zero \/ StagesSolved.val[2] = Zero)
        /\ ~RLtZero(StagesSolved.val[1]) /\ ~RLtZero(StagesSolved.val[2])
        /\ StagesRaised =>
              /\ stagesOut.calls = <<"calculate_equilibrium", "calculate_surpluses">>
              /\ stagesOut.cause.msg = "Equilibrium values must be positive"
              /\ stagesOut.msg = "Error calculating equilibrium: "
                                    \o "Equilibrium values must be positive"
              /\ stagesOut.val = NoValue

\* an analysis that failed on a point of quantity exactly 0 and positive
\* price, which calculate_equilibrium returned
C18_Witness ==
    /\ StagesRaised
    /\ StagesSolved.st = "returned"
    /\ StagesSolved.val[2] = Zero /\ RGtZero(StagesSolved.val[1])

\* the curves of the analysis are standard: demand falls, supply rises
StandardCurves == RLtZero(stagesIn.demand_slope) /\ RGtZero(stagesIn.supply_slope)

\* C19: every returned analysis of a demand curve of slope < 0 and a supply
\* curve of slope > 0 has a consumer surplus > 0, a producer surplus > 0 and
\* a total surplus > 0.
C19_StandardCurvesPositiveSurpluses ==
    (StagesReturned /\ StandardCurves) =>
        /\ RGtZero(stagesOut.val.consumer_surplus)
        /\ RGtZero(stagesOut.val.producer_surplus)
        /\ RGtZero(stagesOut.val.total_surplus)

\* a returned analysis is of a demand curve of slope exactly 0
FlatDemand == stagesIn.demand_slope = Zero

\* C20: in every returned analysis the consumer surplus and the total
\* surplus are +inf when the demand slope is exactly 0 and finite otherwise,
\* and the producer surplus is finite.
C20_NonFiniteOnlyForFlatDemand ==
    StagesReturned =>
        /\ IsFinite(stagesOut.val.producer_surplus)
        /\ FlatDemand =>
              /\ stagesOut.val.consumer_surplus = PosInf
              /\ stagesOut.val.total_surplus = PosInf
        /\ ~FlatDemand =>
              /\ IsFinite(stagesOut.val.consumer_surplus)
              /\ IsFinite(stagesOut.val.total_surplus)

(***************************************************************************)
(* Properties of the Export and Save Graph buttons.                        *)
(***************************************************************************)
\* an enabled button has what its command writes
EnabledButtonsHaveData ==
    /\ export_button = "normal" => results # EmptyDict
    /\ save_graph_button = "normal" => current_figure # None

\* the step is a calculate_results call that passed validation and every stage
SuccessfulCalculation ==
    /\ last'.op = "calculate_results"
    /\ last'.box = Box("info", "Success", "Calculations completed successfully!")
    /\ last'.calls = StageOrder \o <<"update_results_tab", "update_graph_tab">>

\* the step is a calculate_results call that showed an error
FailedCalculation ==
    last'.op = "calculate_results" /\ last'.box.kind = "error"

\* buttons are enabled by successful calculations alone and stay enabled;
\* clear_data and failed calculations keep results, figure and buttons
ButtonSteps ==
    /\ (export_button' # export_button \/ save_graph_button' # save_graph_button)
            => SuccessfulCalculation
    /\ export_button = "normal" => export_button' = "normal"
    /\ save_graph_button = "normal" => save_graph_button' = "normal"
    /\ SuccessfulCalculation =>
            export_button' = "normal" /\ save_graph_button' = "normal"
    /\ (last'.op = "clear_data" \/ FailedCalculation) =>
            UNCHANGED <<results, current_figure, export_button, save_graph_button>>

\* C21: both buttons start disabled; in every reachable state an enabled
\* Export button implies stored results and an enabled Save Graph button
\* implies a current figure; the buttons change only in a calculate_results
\* call that passed validation and every stage, which enables both, and are
\* never disabled again; clear_data and failed calculations leave results,
\* figure and buttons as they were.
C21_ExportGating ==
    /\ export_button = "disabled" /\ save_graph_button = "disabled"
    /\ []EnabledButtonsHaveData
    /\ [][ButtonSteps]_vars

\* clear_data ran while both buttons were enabled, and left them enabled
\* with the results and the figure
C21_Witness ==
    /\ last.op = "clear_data"
    /\ export_button = "normal" /\ save_graph_button = "normal"
    /\ results # EmptyDict /\ current_figure # None
    /\ entries = [f \in Fields |-> EmptyText]

====
